---- MODULE Spec2Model ----
(***************************************************************************)
(* Model of the LaTeX math-expression extraction server (src/server.mjs):  *)
(* the extractor (extractMathExpressions), the normalizer                  *)
(* (cleanLatexSyntax), the join step (FileHandler.writeOutputFile) and the *)
(* /convert request handler with its temp files.                           *)
(*                                                                         *)
(* A string is a sequence of one-character strings.                        *)
(***************************************************************************)
EXTENDS Integers, Sequences, FiniteSets, TLC

VARIABLES
    latexExpression,   \* cleanLatexSyntax: the argument
    cleanOp,           \* which rewrite has been applied to it ("none" at first)
    cleanResult,       \* the value that rewrite returned
    cleanPrev,         \* the value the previous application returned
    latexContent,      \* extractMathExpressions: the argument
    patternIdx,        \* the pattern the for loop is at (7 when it is over)
    mathExpressions,   \* the result array
    origin,            \* history: for each element of mathExpressions, the
                       \* pattern and the match (index, position of the
                       \* closing delimiter) that pushed it
    processPc,         \* processFile: "extracted", "cleaned", "written"
    cleanedExpressions,\* processFile: mathExpressions.map(cleanLatexSyntax)
    content,           \* writeOutputFile: the text written to the output file
    upload,            \* per request: req.file as multer left it
    pc,                \* per request: where its handler stands
    fs,                \* the files on disk: path -> [exists, data]
    latexRead,         \* per request: what readLatexFile returned
    responses,         \* per request: the responses sent, in order
    failure,           \* history: per request, the step that threw ("none")
    produced,          \* history: per request, the files it has written
    deletedEarly       \* history: per request, whether a file it had written
                       \* was unlinked before its response was sent

cleanVars == <<latexExpression, cleanOp, cleanResult, cleanPrev>>
extractVars == <<latexContent, patternIdx, mathExpressions, origin>>
renderVars == <<processPc, cleanedExpressions, content>>
serverVars == <<upload, pc, fs, latexRead, responses, failure, produced, deletedEarly>>
vars == <<cleanVars, extractVars, renderVars, serverVars>>

(***************************************************************************)
(* Bounds of the model.                                                    *)
(***************************************************************************)
MaxCleanPieces == 4
MaxTextPieces == 3
MaxExpressions == 2
MaxRendered == 3

(***************************************************************************)
(* Strings.                                                                *)
(***************************************************************************)
BS == "\\"

\* the characters that are neither matched by "." nor crossed by "$" / "^"
\* under the m flag
IsLineTerminator(c) == c \in {"\n", "\r"}

\* the characters of \s and of String.prototype.trim
IsWhiteSpace(c) == c \in {" ", "\t", "\n", "\r"}

RECURSIVE Flatten(_)
Flatten(ss) == IF ss = <<>> THEN <<>> ELSE Head(ss) \o Flatten(Tail(ss))

\* all sequences of at most n elements of S
SeqUpTo(S, n) == UNION {[1..k -> S] : k \in 0..n}

\* w occurs in s at position i
OccursAt(s, i, w) ==
    /\ i >= 1
    /\ i + Len(w) - 1 <= Len(s)
    /\ \A k \in 1..Len(w) : s[i + k - 1] = w[k]

\* no line terminator at positions i..j-1
SameLine(s, i, j) == \A k \in i..(j - 1) : ~IsLineTerminator(s[k])

Max(S) == CHOOSE m \in S : \A k \in S : k <= m
Min(S) == CHOOSE m \in S : \A k \in S : m <= k

\* no request has been received
ServerIdle ==
    /\ upload = <<>>
    /\ pc = <<>>
    /\ fs = <<>>
    /\ latexRead = <<>>
    /\ responses = <<>>
    /\ failure = <<>>
    /\ produced = <<>>
    /\ deletedEarly = <<>>

(***************************************************************************)
(* cleanLatexSyntax, src/server.mjs:63-69.                                 *)
(***************************************************************************)

\* .replace(/%.*$/gm, ""): from a % to the end of its line
RECURSIVE StripCommentsFrom(_, _, _)
StripCommentsFrom(s, i, inComment) ==
    IF i > Len(s) THEN <<>>
    ELSE IF IsLineTerminator(s[i]) THEN <<s[i]>> \o StripCommentsFrom(s, i + 1, FALSE)
    ELSE IF inComment \/ s[i] = "%" THEN StripCommentsFrom(s, i + 1, TRUE)
    ELSE <<s[i]>> \o StripCommentsFrom(s, i + 1, FALSE)

StripComments(s) == StripCommentsFrom(s, 1, FALSE)

\* the alternation (label|nonumber|tag|qquad|quad|vspace|hspace)
CommandNames ==
    << <<"l","a","b","e","l">>,
       <<"n","o","n","u","m","b","e","r">>,
       <<"t","a","g">>,
       <<"q","q","u","a","d">>,
       <<"q","u","a","d">>,
       <<"v","s","p","a","c","e">>,
       <<"h","s","p","a","c","e">> >>

\* the same with a greedy argument, {.*}: the match runs to the last closing brace
CommandMatchEndGreedy(s, i) ==
    IF ~(i <= Len(s) /\ s[i] = BS) THEN 0
    ELSE LET names == {n \in 1..Len(CommandNames) :
                          /\ OccursAt(s, i + 1, CommandNames[n])
                          /\ OccursAt(s, i + 1 + Len(CommandNames[n]), <<"{">>)}
         IN IF names = {} THEN 0
            ELSE LET n == Min(names)
                     open == i + 1 + Len(CommandNames[n])
                     closes == {k \in (open + 1)..Len(s) : s[k] = "}"}
                 IN IF closes = {} THEN 0 ELSE Max(closes)

\* /\\(label|...){[^}]*}/ tried at position i: the index of the closing brace
\* of the match, 0 when there is no match at i
CommandMatchEnd(s, i) ==
    IF ~(i <= Len(s) /\ s[i] = BS) THEN 0
    ELSE LET names == {n \in 1..Len(CommandNames) :
                          /\ OccursAt(s, i + 1, CommandNames[n])
                          /\ OccursAt(s, i + 1 + Len(CommandNames[n]), <<"{">>)}
         IN IF names = {} THEN 0
            ELSE LET n == Min(names)
                     open == i + 1 + Len(CommandNames[n])
                     closes == {k \in (open + 1)..Len(s) : s[k] = "}"}
                 IN IF closes = {} THEN 0 ELSE Min(closes)

\* .replace(/\\(label|...){[^}]*}/g, "")
RECURSIVE StripCommandsFrom(_, _)
StripCommandsFrom(s, i) ==
    IF i > Len(s) THEN <<>>
    ELSE LET e == CommandMatchEnd(s, i)
         IN IF e # 0 THEN StripCommandsFrom(s, e + 1)
            ELSE <<s[i]>> \o StripCommandsFrom(s, i + 1)

StripCommands(s) == StripCommandsFrom(s, 1)

\* /^\s*[\r\n]/m tried at position i: the index of the last character of the
\* match, 0 when there is no match at i
BlankLineMatchEnd(s, i) ==
    IF ~(i = 1 \/ IsLineTerminator(s[i - 1])) THEN 0
    ELSE LET run == {j \in i..Len(s) : \A k \in i..j : IsWhiteSpace(s[k])}
             ends == {j \in run : s[j] \in {"\r", "\n"}}
         IN IF ends = {} THEN 0 ELSE Max(ends)

\* .replace(/^\s*[\r\n]/gm, "")
RECURSIVE StripBlankLinesFrom(_, _)
StripBlankLinesFrom(s, i) ==
    IF i > Len(s) THEN <<>>
    ELSE LET e == BlankLineMatchEnd(s, i)
         IN IF e # 0 THEN StripBlankLinesFrom(s, e + 1)
            ELSE <<s[i]>> \o StripBlankLinesFrom(s, i + 1)

StripBlankLines(s) == StripBlankLinesFrom(s, 1)

\* String.prototype.trim
Trim(s) ==
    LET keep == {i \in 1..Len(s) : ~IsWhiteSpace(s[i])}
    IN IF keep = {} THEN <<>> ELSE SubSeq(s, Min(keep), Max(keep))

\* the same chain with trim() called first instead of last
cleanLatexSyntaxTrimFirst(s) == StripBlankLines(StripCommands(StripComments(Trim(s))))

cleanLatexSyntax(s) == Trim(StripBlankLines(StripCommands(StripComments(s))))

(***************************************************************************)
(* The normalizer applied to bounded inputs.                               *)
(***************************************************************************)
CleanPieces ==
    { <<BS>>, <<"%">>, <<"\n">>, <<" ">>, <<"x">>, <<"{">>, <<"}">>,
      <<"t","a","g","{">>, <<"t","a","g","{","x","}">>,
      <<"n","o","n","u","m","b","e","r">> }

CleanInputs == {Flatten(ps) : ps \in SeqUpTo(CleanPieces, MaxCleanPieces)}

InitClean ==
    /\ latexExpression \in CleanInputs
    /\ cleanOp = "none"
    /\ cleanResult = <<>>
    /\ cleanPrev = <<>>
    /\ latexContent = <<>>
    /\ patternIdx = 1
    /\ mathExpressions = <<>>
    /\ origin = <<>>
    /\ processPc = "extracted"
    /\ cleanedExpressions = <<>>
    /\ content = <<>>
    /\ ServerIdle

ApplyStripComments ==
    /\ cleanOp = "none"
    /\ cleanOp' = "comments"
    /\ cleanResult' = StripComments(latexExpression)
    /\ UNCHANGED <<latexExpression, cleanPrev, extractVars, renderVars, serverVars>>

ApplyStripCommands ==
    /\ cleanOp = "none"
    /\ cleanOp' = "commands"
    /\ cleanResult' = StripCommands(latexExpression)
    /\ UNCHANGED <<latexExpression, cleanPrev, extractVars, renderVars, serverVars>>

ApplyClean ==
    /\ cleanOp = "none"
    /\ cleanOp' = "clean"
    /\ cleanResult' = cleanLatexSyntax(latexExpression)
    /\ UNCHANGED <<latexExpression, cleanPrev, extractVars, renderVars, serverVars>>

ApplyCleanAgain ==
    /\ cleanOp = "clean"
    /\ cleanOp' = "cleanTwice"
    /\ cleanResult' = cleanLatexSyntax(cleanResult)
    /\ cleanPrev' = cleanResult
    /\ UNCHANGED <<latexExpression, extractVars, renderVars, serverVars>>

NextClean == ApplyStripComments \/ ApplyStripCommands \/ ApplyClean \/ ApplyCleanAgain

SpecClean == InitClean /\ [][NextClean]_vars

(***************************************************************************)
(* extractMathExpressions, src/server.mjs:42-61.                           *)
(***************************************************************************)
BeginEnv(name) == <<BS, "b", "e", "g", "i", "n", "{">> \o name \o <<"}">>
EndEnv(name) == <<BS, "e", "n", "d", "{">> \o name \o <<"}">>

Equation == <<"e", "q", "u", "a", "t", "i", "o", "n">>
Align == <<"a", "l", "i", "g", "n">>
Multline == <<"m", "u", "l", "t", "l", "i", "n", "e">>

\* the same array with the $ pattern listed first
PatternsDollarFirst ==
    << [open |-> <<"$">>, close |-> <<"$">>, dotAll |-> FALSE, group |-> TRUE],
       [open |-> <<BS, "(">>, close |-> <<BS, ")">>, dotAll |-> FALSE, group |-> FALSE],
       [open |-> <<BS, "[">>, close |-> <<BS, "]">>, dotAll |-> TRUE, group |-> TRUE],
       [open |-> BeginEnv(Equation), close |-> EndEnv(Equation), dotAll |-> TRUE, group |-> TRUE],
       [open |-> BeginEnv(Align), close |-> EndEnv(Align), dotAll |-> TRUE, group |-> TRUE],
       [open |-> BeginEnv(Multline), close |-> EndEnv(Multline), dotAll |-> TRUE, group |-> TRUE] >>

\* const patterns = [...]: each is open, a lazy .*? (captured when group),
\* close; dotAll is the s flag
Patterns ==
    << [open |-> <<BS, "(">>, close |-> <<BS, ")">>, dotAll |-> FALSE, group |-> FALSE],
       [open |-> <<BS, "[">>, close |-> <<BS, "]">>, dotAll |-> TRUE, group |-> TRUE],
       [open |-> <<"$">>, close |-> <<"$">>, dotAll |-> FALSE, group |-> TRUE],
       [open |-> BeginEnv(Equation), close |-> EndEnv(Equation), dotAll |-> TRUE, group |-> TRUE],
       [open |-> BeginEnv(Align), close |-> EndEnv(Align), dotAll |-> TRUE, group |-> TRUE],
       [open |-> BeginEnv(Multline), close |-> EndEnv(Multline), dotAll |-> TRUE, group |-> TRUE] >>

\* the positions at which the close of a match that opens at i can stand: the
\* text between consists of characters "." matches
ClosePositions(s, i, pat) ==
    {e \in (i + Len(pat.open))..Len(s) :
        /\ OccursAt(s, e, pat.close)
        /\ \A k \in (i + Len(pat.open))..(e - 1) : pat.dotAll \/ ~IsLineTerminator(s[k])}

\* a greedy .* in place of .*?: the last close
MatchCloseGreedy(s, i, pat) ==
    IF ~OccursAt(s, i, pat.open) \/ ClosePositions(s, i, pat) = {} THEN 0
    ELSE Max(ClosePositions(s, i, pat))

\* the lazy .*? followed by close, from position e on: .*? takes one more
\* character at a time until close matches; "." refuses a line terminator
\* unless the s flag is set. The position of close, 0 when the match fails
RECURSIVE LazyClose(_, _, _)
LazyClose(s, e, pat) ==
    IF e > Len(s) THEN 0
    ELSE IF OccursAt(s, e, pat.close) THEN e
    ELSE IF ~pat.dotAll /\ IsLineTerminator(s[e]) THEN 0
    ELSE LazyClose(s, e + 1, pat)

\* the pattern tried at position i: the position of the closing delimiter of
\* the match, 0 when there is no match at i
MatchClose(s, i, pat) ==
    IF ~OccursAt(s, i, pat.open) THEN 0
    ELSE LazyClose(s, i + Len(pat.open), pat)

\* [...s.matchAll(pattern)] from position i on: the matches, left to right,
\* each search resuming where the previous match ended
RECURSIVE MatchAllFrom(_, _, _)
MatchAllFrom(s, i, pat) ==
    IF i > Len(s) THEN <<>>
    ELSE LET e == MatchClose(s, i, pat)
         IN IF e # 0
            THEN <<[index |-> i, close |-> e]>> \o MatchAllFrom(s, e + Len(pat.close), pat)
            ELSE MatchAllFrom(s, i + 1, pat)

MatchAll(s, pat) == MatchAllFrom(s, 1, pat)

\* match[0] and match[1] (<<>> stands for both "" and undefined: each is falsy)
FullMatch(s, m, pat) == SubSeq(s, m.index, m.close + Len(pat.close) - 1)
Capture(s, m, pat) ==
    IF pat.group THEN SubSeq(s, m.index + Len(pat.open), m.close - 1) ELSE <<>>

\* the callback with the else branch left out
PushedCaptureOnly(s, m, pat) ==
    IF Capture(s, m, pat) # <<>> THEN <<Capture(s, m, pat)>> ELSE <<>>

\* the forEach callback: what one match pushes
Pushed(s, m, pat) ==
    IF Capture(s, m, pat) # <<>> THEN <<Capture(s, m, pat)>>
    ELSE IF FullMatch(s, m, pat) # <<>> THEN <<FullMatch(s, m, pat)>>
    ELSE <<>>

RECURSIVE PushAll(_, _, _, _)
PushAll(s, ms, pat, k) ==
    IF k > Len(ms) THEN <<>>
    ELSE Pushed(s, ms[k], pat) \o PushAll(s, ms, pat, k + 1)

RECURSIVE OriginAll(_, _, _, _, _)
OriginAll(s, ms, pat, p, k) ==
    IF k > Len(ms) THEN <<>>
    ELSE (IF Pushed(s, ms[k], pat) = <<>> THEN <<>>
          ELSE <<[pattern |-> p, index |-> ms[k].index, close |-> ms[k].close]>>)
         \o OriginAll(s, ms, pat, p, k + 1)

\* what one pass of the loop appends
PassResult(s, p) == PushAll(s, MatchAll(s, Patterns[p]), Patterns[p], 1)

\* the whole function: the passes in the order of the array
RECURSIVE ExtractFrom(_, _)
ExtractFrom(s, p) ==
    IF p > Len(Patterns) THEN <<>> ELSE PassResult(s, p) \o ExtractFrom(s, p + 1)

extractMathExpressions(s) == ExtractFrom(s, 1)

TextPieces ==
    { <<BS, "(">>, <<BS, ")">>, <<BS, "[">>, <<BS, "]">>, <<"$">>, <<"x">>, <<"\n">>,
      BeginEnv(Equation), EndEnv(Equation) }

\* whole delimited expressions of each convention, and filler text
ExpressionBodies == { <<>>, <<"x">>, <<"$", "y", "$">> }

TextExpressions ==
    {Patterns[p].open \o body \o Patterns[p].close :
        p \in 1..Len(Patterns), body \in ExpressionBodies} \cup { <<" ">> }

Texts ==
    {Flatten(ps) : ps \in SeqUpTo(TextPieces, MaxTextPieces)}
    \cup {Flatten(es) : es \in SeqUpTo(TextExpressions, MaxExpressions)}

Init ==
    /\ latexContent \in Texts
    /\ patternIdx = 1
    /\ mathExpressions = <<>>
    /\ origin = <<>>
    /\ latexExpression = <<>>
    /\ cleanOp = "none"
    /\ cleanResult = <<>>
    /\ cleanPrev = <<>>
    /\ processPc = "extracted"
    /\ cleanedExpressions = <<>>
    /\ content = <<>>
    /\ ServerIdle

\* one iteration of for (const pattern of patterns)
ScanPattern ==
    /\ patternIdx <= Len(Patterns)
    /\ LET pat == Patterns[patternIdx]
           matches == MatchAll(latexContent, pat)
       IN /\ mathExpressions' = mathExpressions \o PushAll(latexContent, matches, pat, 1)
          /\ origin' = origin \o OriginAll(latexContent, matches, pat, patternIdx, 1)
    /\ patternIdx' = patternIdx + 1
    /\ UNCHANGED <<latexContent, cleanVars, renderVars, serverVars>>

Next == ScanPattern

Spec == Init /\ [][Next]_vars

(***************************************************************************)
(* FileHandler.processFile after the extraction and                        *)
(* FileHandler.writeOutputFile, src/server.mjs:85-103.                     *)
(***************************************************************************)

\* expr.replace(/\\/g, "\\\\")
RECURSIVE DoubleBackslashes(_)
DoubleBackslashes(s) ==
    IF s = <<>> THEN <<>>
    ELSE (IF Head(s) = BS THEN <<BS, BS>> ELSE <<Head(s)>>) \o DoubleBackslashes(Tail(s))

\* the map callback without the replace
RenderExpressionNoDoubling(expr) == Trim(expr)

\* the map callback of writeOutputFile
RenderExpression(expr) == Trim(DoubleBackslashes(expr))

\* Array.prototype.join
RECURSIVE Join(_, _)
Join(xs, sep) ==
    IF xs = <<>> THEN <<>>
    ELSE IF Len(xs) = 1 THEN xs[1]
    ELSE xs[1] \o sep \o Join(Tail(xs), sep)

\* raw expressions as the extractor returns them: never empty
RawExpressions ==
    { <<"x">>,
      <<"a", BS, "b">>,
      <<BS, "(", "x", BS, ")">>,
      <<BS, "t", "a", "g", "{", "x", "}">>,
      <<BS, BS, "t", "a", "g", "{", "x", "}", "y">>,
      <<" ", "x", "%", "c", "\n", "\n", BS, BS, " ">>,
      <<"$", "$">> }

InitRender ==
    /\ mathExpressions \in SeqUpTo(RawExpressions, MaxRendered)
    /\ processPc = "extracted"
    /\ cleanedExpressions = <<>>
    /\ content = <<>>
    /\ latexContent = <<>>
    /\ patternIdx = Len(Patterns) + 1
    /\ origin = <<>>
    /\ latexExpression = <<>>
    /\ cleanOp = "none"
    /\ cleanResult = <<>>
    /\ cleanPrev = <<>>
    /\ ServerIdle

\* const cleanedExpressions = mathExpressions.map(cleanLatexSyntax)
MapClean ==
    /\ processPc = "extracted"
    /\ cleanedExpressions' =
           [k \in 1..Len(mathExpressions) |-> cleanLatexSyntax(mathExpressions[k])]
    /\ processPc' = "cleaned"
    /\ UNCHANGED <<content, cleanVars, extractVars, serverVars>>

\* await this.writeOutputFile(cleanedExpressions)
WriteOutputFile ==
    /\ processPc = "cleaned"
    /\ content' =
           Join([k \in 1..Len(cleanedExpressions) |-> RenderExpression(cleanedExpressions[k])],
                <<"\n", "\n">>)
    /\ processPc' = "written"
    /\ UNCHANGED <<cleanedExpressions, cleanVars, extractVars, serverVars>>

NextRender == MapClean \/ WriteOutputFile

SpecRender == InitRender /\ [][NextRender]_vars

(***************************************************************************)
(* Properties of the join step.                                            *)
(***************************************************************************)
CountBackslashes(s, i) == Cardinality({j \in 1..i : s[j] = BS})

\* s with every backslash written twice
Doubled(s) ==
    [j \in 1..(Len(s) + CountBackslashes(s, Len(s))) |->
        LET i == CHOOSE i \in 1..Len(s) :
                     \/ j = i + CountBackslashes(s, i - 1)
                     \/ (s[i] = BS /\ j = i + CountBackslashes(s, i - 1) + 1)
        IN s[i]]

\* the cut of the content into n elements: element k starts at from[k] and is
\* followed by two newlines unless it is the last
IsRendering(text, elems) ==
    LET n == Len(elems)
        from[k \in 1..n] == IF k = 1 THEN 1 ELSE from[k - 1] + Len(elems[k - 1]) + 2
    IN IF n = 0 THEN text = <<>>
       ELSE /\ Len(text) = from[n] + Len(elems[n]) - 1
            /\ \A k \in 1..n :
                   /\ SubSeq(text, from[k], from[k] + Len(elems[k]) - 1) = elems[k]
                   /\ k < n => SubSeq(text, from[k] + Len(elems[k]),
                                      from[k] + Len(elems[k]) + 1) = <<"\n", "\n">>

\* C8: the output is the cleaned expressions in order, each with every
\* backslash doubled and trimmed, two newlines between consecutive elements
\* and nothing before the first or after the last; cleanExpression has been
\* applied to the raw expressions, before the doubling.
C8_DoubledThenJoined ==
    /\ processPc # "extracted" =>
           /\ Len(cleanedExpressions) = Len(mathExpressions)
           /\ \A k \in 1..Len(mathExpressions) :
                  cleanedExpressions[k] = cleanLatexSyntax(mathExpressions[k])
    /\ processPc = "written" =>
           IsRendering(content,
                       [k \in 1..Len(cleanedExpressions) |->
                           Trim(Doubled(cleanedExpressions[k]))])

\* three expressions have been written: one cleaned to nothing, one whose
\* command was removed before the doubling, one with a backslash left
C8_Witness ==
    /\ processPc = "written"
    /\ Len(cleanedExpressions) = 3
    /\ cleanedExpressions[1] # <<>>
    /\ \E k \in 1..3 : cleanedExpressions[k] = <<>>
    /\ \E k \in 1..3 : mathExpressions[k] # cleanedExpressions[k]
                          /\ CountBackslashes(cleanedExpressions[k], Len(cleanedExpressions[k])) > 0
    /\ \E i \in 1..(Len(content) - 1) : content[i] = BS /\ content[i + 1] = BS

(***************************************************************************)
(* The /convert handler, src/server.mjs:133-160, with FileHandler          *)
(* (71-112), convertWordToLatex (34-40), cleanupFiles (114-123) and        *)
(* sendFileResponse (125-131). Each action is the code that runs between   *)
(* two awaits of one request, or the file operation it awaits.             *)
(***************************************************************************)
Requests == {"A", "B"}
Names == {"report", "notes"}
Docs == {"d1", "d2"}

\* what pandoc writes for each document
LatexOf(doc) ==
    IF doc = "d1" THEN <<"$", "x", "$">> ELSE <<BS, "(", "y", BS, ")", "%">>

NoFile == [exists |-> FALSE, data |-> <<>>]
File(data) == [exists |-> TRUE, data |-> data]

\* req.file: none, a file object multer filled in, or one that lacks its
\* originalname
Uploads ==
    {[kind |-> "none", name |-> "", doc |-> ""]}
    \cup {[kind |-> "invalid", name |-> "", doc |-> d] : d \in Docs}
    \cup {[kind |-> "file", name |-> n, doc |-> d] : n \in Names, d \in Docs}

\* FileHandler's constructor: file.path (multer gives each upload its own),
\* temp/<name>_bulk.txt and latex_files/<name>.txt
TempPath(r) == <<"temp", "upload", r>>
LatexPath(r) == <<"temp", upload[r].name, "_bulk.txt">>
OutputPath(r) == <<"latex_files", upload[r].name, ".txt">>

Paths ==
    {<<"temp", "upload", r>> : r \in Requests}
    \cup {<<"temp", n, "_bulk.txt">> : n \in Names \cup {""}}
    \cup {<<"latex_files", n, ".txt">> : n \in Names \cup {""}}

\* getCleanupFiles
CleanupFilesOf(r) == {TempPath(r), LatexPath(r), OutputPath(r)}

\* processFile between readLatexFile and fs.writeFile: the text to write
OutputContent(latex) ==
    LET cleaned == [k \in 1..Len(extractMathExpressions(latex)) |->
                       cleanLatexSyntax(extractMathExpressions(latex)[k])]
    IN Join([k \in 1..Len(cleaned) |-> RenderExpression(cleaned[k])], <<"\n", "\n">>)

\* a handler that answers each failure with a status of its own
ErrorResponseByFailure(reason) ==
    [kind |-> "error",
     status |-> IF reason \in {"no upload", "invalid upload"} THEN 400 ELSE 500,
     body |-> reason]

\* res.status(500).send(`Error: ${error.message}`)
ErrorResponse(reason) == [kind |-> "error", status |-> 500, body |-> reason]

InitServer ==
    /\ upload \in [Requests -> Uploads]
    /\ pc = [r \in Requests |-> "start"]
    /\ fs = [p \in Paths |->
                IF \E r \in Requests : p = TempPath(r) /\ upload[r].kind # "none"
                THEN File(<<upload[CHOOSE r \in Requests : p = TempPath(r)].doc>>)
                ELSE NoFile]
    /\ latexRead = [r \in Requests |-> <<>>]
    /\ responses = [r \in Requests |-> <<>>]
    /\ failure = [r \in Requests |-> "none"]
    /\ produced = [r \in Requests |-> {}]
    /\ deletedEarly = [r \in Requests |-> FALSE]
    /\ latexContent = <<>>
    /\ patternIdx = 1
    /\ mathExpressions = <<>>
    /\ origin = <<>>
    /\ latexExpression = <<>>
    /\ cleanOp = "none"
    /\ cleanResult = <<>>
    /\ cleanPrev = <<>>
    /\ processPc = "extracted"
    /\ cleanedExpressions = <<>>
    /\ content = <<>>

localVars == <<cleanVars, extractVars, renderVars>>

\* the catch block up to its await: the 500 response; cleanup follows when a
\* handler exists
Catch(r, reason, hasHandler) ==
    /\ failure' = [failure EXCEPT ![r] = reason]
    /\ responses' = [responses EXCEPT ![r] = Append(@, ErrorResponse(reason))]
    /\ pc' = [pc EXCEPT ![r] = IF hasHandler THEN "cleanupAfterError" ELSE "done"]

\* after await ensureDirectories(): the req.file check and new FileHandler,
\* up to the call of pandoc
Start(r) ==
    /\ pc[r] = "start"
    /\ \/ /\ upload[r].kind = "none"
          /\ Catch(r, "no upload", FALSE)
       \/ /\ upload[r].kind = "invalid"
          /\ Catch(r, "invalid upload", FALSE)
       \/ /\ upload[r].kind = "file"
          /\ pc' = [pc EXCEPT ![r] = "convert"]
          /\ UNCHANGED <<failure, responses>>
    /\ UNCHANGED <<upload, fs, latexRead, produced, deletedEarly, localVars>>

\* await convertWordToLatex: pandoc reads the upload and writes the LaTeX
\* file, or fails
Convert(r) ==
    /\ pc[r] = "convert"
    /\ \/ /\ fs[TempPath(r)].exists
          /\ fs' = [fs EXCEPT ![LatexPath(r)] = File(LatexOf(fs[TempPath(r)].data[1]))]
          /\ produced' = [produced EXCEPT ![r] = @ \cup {"latex"}]
          /\ pc' = [pc EXCEPT ![r] = "read"]
          /\ UNCHANGED <<failure, responses>>
       \/ /\ Catch(r, "convert", TRUE)
          /\ UNCHANGED <<fs, produced>>
    /\ UNCHANGED <<upload, latexRead, deletedEarly, localVars>>

\* await this.readLatexFile(): ENOENT when the file is not there
ReadLatex(r) ==
    /\ pc[r] = "read"
    /\ IF fs[LatexPath(r)].exists
       THEN /\ latexRead' = [latexRead EXCEPT ![r] = fs[LatexPath(r)].data]
            /\ pc' = [pc EXCEPT ![r] = "write"]
            /\ UNCHANGED <<failure, responses>>
       ELSE /\ Catch(r, "read", TRUE)
            /\ UNCHANGED latexRead
    /\ UNCHANGED <<upload, fs, produced, deletedEarly, localVars>>

\* extract, clean, and await fs.writeFile(this.outputPath, content), which
\* writes the file or fails; then sendFileResponse starts the transfer and
\* the finish listener is registered
WriteOutput(r) ==
    /\ pc[r] = "write"
    /\ \/ /\ fs' = [fs EXCEPT ![OutputPath(r)] = File(OutputContent(latexRead[r]))]
          /\ produced' = [produced EXCEPT ![r] = @ \cup {"output"}]
          /\ pc' = [pc EXCEPT ![r] = "send"]
          /\ UNCHANGED <<failure, responses>>
       \/ /\ Catch(r, "write", TRUE)
          /\ UNCHANGED <<fs, produced>>
    /\ UNCHANGED <<upload, latexRead, deletedEarly, localVars>>

\* res.sendFile reads the output file and sends it; when the file is not
\* there the framework answers with its own 404
SendFile(r) ==
    /\ pc[r] = "send"
    /\ responses' = [responses EXCEPT ![r] =
           Append(@, IF fs[OutputPath(r)].exists
                     THEN [kind |-> "file", status |-> 200, body |-> fs[OutputPath(r)].data]
                     ELSE [kind |-> "error", status |-> 404, body |-> "send"])]
    /\ pc' = [pc EXCEPT ![r] = "finish"]
    /\ UNCHANGED <<upload, fs, latexRead, failure, produced, deletedEarly, localVars>>

\* cleanupFiles(handler.getCleanupFiles()): every file is unlinked, a missing
\* one is passed over
CleanupFiles(r) ==
    /\ fs' = [p \in Paths |-> IF p \in CleanupFilesOf(r) THEN NoFile ELSE fs[p]]
    /\ deletedEarly' =
           [q \in Requests |->
               \/ deletedEarly[q]
               \/ /\ q # r
                  /\ responses[q] = <<>>
                  /\ \/ "latex" \in produced[q] /\ LatexPath(q) = LatexPath(r)
                           /\ fs[LatexPath(q)].exists
                     \/ "output" \in produced[q] /\ OutputPath(q) = OutputPath(r)
                           /\ fs[OutputPath(q)].exists]

\* the finish listener
CleanupOnFinish(r) ==
    /\ pc[r] = "finish"
    /\ CleanupFiles(r)
    /\ pc' = [pc EXCEPT ![r] = "done"]
    /\ UNCHANGED <<upload, latexRead, responses, failure, produced, localVars>>

\* await cleanupFiles(...) in the catch block
CleanupAfterError(r) ==
    /\ pc[r] = "cleanupAfterError"
    /\ CleanupFiles(r)
    /\ pc' = [pc EXCEPT ![r] = "done"]
    /\ UNCHANGED <<upload, latexRead, responses, failure, produced, localVars>>

NextServer ==
    \E r \in Requests :
        \/ Start(r)
        \/ Convert(r)
        \/ ReadLatex(r)
        \/ WriteOutput(r)
        \/ SendFile(r)
        \/ CleanupOnFinish(r)
        \/ CleanupAfterError(r)

SpecServer == InitServer /\ [][NextServer]_vars

(***************************************************************************)
(* Properties of the extractor.                                            *)
(***************************************************************************)

\* the six conventions in the stated order: opening delimiter, closing
\* delimiter, whether the body may span lines, whether the body alone is
\* captured
Conventions ==
    << [open |-> <<BS, "(">>, close |-> <<BS, ")">>, lines |-> FALSE, inner |-> FALSE],
       [open |-> <<BS, "[">>, close |-> <<BS, "]">>, lines |-> TRUE, inner |-> TRUE],
       [open |-> <<"$">>, close |-> <<"$">>, lines |-> FALSE, inner |-> TRUE],
       [open |-> BeginEnv(Equation), close |-> EndEnv(Equation), lines |-> TRUE, inner |-> TRUE],
       [open |-> BeginEnv(Align), close |-> EndEnv(Align), lines |-> TRUE, inner |-> TRUE],
       [open |-> BeginEnv(Multline), close |-> EndEnv(Multline), lines |-> TRUE, inner |-> TRUE] >>

\* the next closing delimiter of convention c at or after position j, 0 when
\* there is none
NextClose(s, j, c) ==
    LET es == {e \in j..Len(s) : OccursAt(s, e, c.close)}
    IN IF es = {} THEN 0 ELSE Min(es)

\* an expression of convention c can start at i: an opening delimiter, then
\* a next closing delimiter, on the same line unless the body may span lines
CanStart(s, i, c) ==
    /\ OccursAt(s, i, c.open)
    /\ LET e == NextClose(s, i + Len(c.open), c)
       IN e # 0 /\ (c.lines \/ SameLine(s, i, e))

\* the position right after the expression that starts at i
EndOf(s, i, c) == NextClose(s, i + Len(c.open), c) + Len(c.close)

\* the starts of the expressions of convention c in the whole of s: those
\* that do not lie inside an expression that starts further left
ExpressionStarts(s, c) ==
    LET opens == {i \in 1..Len(s) : CanStart(s, i, c)}
        isStart[i \in opens] ==
            \A h \in opens : h < i => ~(isStart[h] /\ i < EndOf(s, h, c))
    IN {i \in opens : isStart[i]}

OriginsOf(p) == {k \in 1..Len(origin) : origin[k].pattern = p}

\* C1: the result is the per-pattern match lists in the fixed pattern order,
\* each taken from the whole unmodified text: results of an earlier pattern
\* come first whatever their position, and each pass finds all expressions of
\* its convention, also those inside text another pass has matched.
C1_PassGroupedWholeText ==
    /\ Len(origin) = Len(mathExpressions)
    /\ \A k, l \in 1..Len(origin) : k < l => origin[k].pattern <= origin[l].pattern
    /\ \A p \in patternIdx..Len(Conventions) : OriginsOf(p) = {}
    /\ patternIdx = Len(Conventions) + 1 =>
           \A p \in 1..Len(Conventions) :
               LET starts == ExpressionStarts(latexContent, Conventions[p])
               IN /\ {origin[k].index : k \in OriginsOf(p)} = starts
                  /\ Cardinality(OriginsOf(p)) = Cardinality(starts)

\* the loop is over; a result of an earlier pattern stands before a result of
\* a later pattern that is further left in the text, and a later pass has
\* emitted text that lies inside a match of an earlier pass
C1_Witness ==
    /\ patternIdx = 7
    /\ \E k, l \in 1..Len(origin) :
           /\ k < l
           /\ origin[k].pattern < origin[l].pattern
           /\ origin[k].index > origin[l].index
    /\ \E k, l \in 1..Len(origin) :
           /\ origin[k].pattern < origin[l].pattern
           /\ origin[k].index < origin[l].index
           /\ origin[l].index < origin[k].close

InnerText(s, o) ==
    SubSeq(s, o.index + Len(Conventions[o.pattern].open), o.close - 1)
WholeText(s, o) ==
    SubSeq(s, o.index, o.close + Len(Conventions[o.pattern].close) - 1)

RECURSIVE SumOver(_, _)
SumOver(f, S) ==
    IF S = {} THEN 0
    ELSE LET x == CHOOSE x \in S : TRUE IN f[x] + SumOver(f, S \ {x})

\* C4: each match appends exactly one element, the captured inner text when
\* the pattern captures and the text is not empty, else the whole match with
\* its delimiters; no element is empty and there are as many elements as
\* matches.
C4_OneElementPerMatch ==
    /\ \A k \in 1..Len(mathExpressions) :
           /\ k <= Len(origin)
           /\ mathExpressions[k] =
                  IF Conventions[origin[k].pattern].inner
                        /\ InnerText(latexContent, origin[k]) # <<>>
                  THEN InnerText(latexContent, origin[k])
                  ELSE WholeText(latexContent, origin[k])
           /\ mathExpressions[k] # <<>>
    /\ patternIdx = Len(Conventions) + 1 =>
           Len(mathExpressions) =
               SumOver([p \in 1..Len(Conventions) |->
                           Cardinality(ExpressionStarts(latexContent, Conventions[p]))],
                       1..Len(Conventions))

\* the loop is over; the result holds a \(..\) match with its delimiters, an
\* inner capture, and an empty pair emitted whole
C4_Witness ==
    /\ patternIdx = 7
    /\ \E k \in 1..Len(mathExpressions) :
           origin[k].pattern = 1 /\ OccursAt(mathExpressions[k], 1, <<BS, "(">>)
    /\ \E k \in 1..Len(mathExpressions) :
           origin[k].pattern = 3 /\ mathExpressions[k] = <<"y">>
    /\ \E k \in 1..Len(mathExpressions) :
           origin[k].pattern = 3 /\ mathExpressions[k] = <<"$", "$">>

\* C5: within one pass the matches come left to right and do not overlap, and
\* each ends at the first closing delimiter after its opening delimiter, so
\* consecutive expressions give separate results.
C5_LeftToRightShortest ==
    \A k \in 1..Len(origin) :
        LET c == Conventions[origin[k].pattern]
        IN /\ OccursAt(latexContent, origin[k].index, c.open)
           /\ origin[k].close = NextClose(latexContent, origin[k].index + Len(c.open), c)
           /\ \A l \in 1..Len(origin) :
                  (k < l /\ origin[l].pattern = origin[k].pattern) =>
                      origin[k].close + Len(c.close) <= origin[l].index

\* one pass has given two different results from two consecutive expressions
C5_Witness ==
    \E k \in 1..(Len(origin) - 1) :
        /\ origin[k].pattern = origin[k + 1].pattern
        /\ origin[k + 1].index = origin[k].close + Len(Conventions[origin[k].pattern].close)
        /\ mathExpressions[k] # mathExpressions[k + 1]

(***************************************************************************)
(* Properties of the normalizer.                                           *)
(***************************************************************************)

\* s restricted to the positions in keep, in order
RECURSIVE KeepFrom(_, _, _)
KeepFrom(s, keep, i) ==
    IF i > Len(s) THEN <<>>
    ELSE (IF i \in keep THEN <<s[i]>> ELSE <<>>) \o KeepFrom(s, keep, i + 1)

Restrict(s, keep) == KeepFrom(s, keep, 1)

\* the number of consecutive backslashes that end right before position i
BackslashesBefore(s, i) ==
    Cardinality({j \in 1..(i - 1) : \A k \in j..(i - 1) : s[k] = BS})

\* a % that is not escaped as \%
UnescapedPercentAt(s, i) == s[i] = "%" /\ BackslashesBefore(s, i) % 2 = 0

\* the positions the claimed comment rule keeps: those with no unescaped %
\* at or before them on their line
KeptByCommentRule(s) ==
    {i \in 1..Len(s) :
        \/ IsLineTerminator(s[i])
        \/ ~\E j \in 1..i : UnescapedPercentAt(s, j) /\ SameLine(s, j, i)}

\* C6: the first rewrite removes, on every line, everything from an unescaped
\* % to the end of the line and nothing else; \% does not start a comment.
C6_UnescapedPercentOnly ==
    cleanOp = "comments" =>
        cleanResult = Restrict(latexExpression, KeptByCommentRule(latexExpression))

\* a command name directly after a backslash at position i: the position
\* that follows the name, 0 when there is none
NameEndAt(s, i) ==
    IF ~(i <= Len(s) /\ s[i] = BS) THEN 0
    ELSE LET ns == {n \in 1..Len(CommandNames) : OccursAt(s, i + 1, CommandNames[n])}
         IN IF ns = {} THEN 0
            ELSE Max({i + 1 + Len(CommandNames[n]) : n \in ns})

BraceDepth(s, i, k) ==
    Cardinality({j \in i..k : s[j] = "{"}) - Cardinality({j \in i..k : s[j] = "}"})

\* the span of the command at i with its argument read as a balanced brace
\* group: the set of its positions, {} when there is none
BalancedSpan(s, i) ==
    LET open == NameEndAt(s, i)
    IN IF open = 0 \/ open > Len(s) \/ s[open] # "{" THEN {}
       ELSE LET ends == {k \in open..Len(s) : BraceDepth(s, open, k) = 0}
            IN IF ends = {} THEN {} ELSE i..Min(ends)

\* the span of the command at i with its argument read as running to the
\* first closing brace
FirstBraceSpan(s, i) ==
    LET open == NameEndAt(s, i)
    IN IF open = 0 \/ open > Len(s) \/ s[open] # "{" THEN {}
       ELSE LET ends == {k \in (open + 1)..Len(s) : s[k] = "}"}
            IN IF ends = {} THEN {} ELSE i..Min(ends)

BalancedSpans(s) == UNION {BalancedSpan(s, i) : i \in 1..Len(s)}
FirstBraceSpans(s) == UNION {FirstBraceSpan(s, i) : i \in 1..Len(s)}

BracesBalanced(s) ==
    /\ BraceDepth(s, 1, Len(s)) = 0
    /\ \A k \in 1..Len(s) : BraceDepth(s, 1, k) >= 0

NoCommentNoSpace(s) == \A i \in 1..Len(s) : s[i] # "%" /\ ~IsWhiteSpace(s[i])

\* C7 as stated: every command followed by a brace-delimited argument is
\* deleted together with that argument (a balanced brace group), and nothing
\* else is deleted.
C7_BalancedArgumentDeleted ==
    (cleanOp = "commands" /\ BracesBalanced(latexExpression)) =>
        cleanResult = Restrict(latexExpression,
                               (1..Len(latexExpression)) \ BalancedSpans(latexExpression))

\* C7 amended: every command directly followed by { is deleted together with
\* the text up to and including the first } after it; a command with no later
\* } and a command not directly followed by { stay, unless they lie in a
\* deleted span.
C7_ArgumentToFirstClosingBrace ==
    /\ cleanOp = "commands" =>
           cleanResult = Restrict(latexExpression,
                                  (1..Len(latexExpression)) \ FirstBraceSpans(latexExpression))
    /\ (cleanOp = "clean" /\ NoCommentNoSpace(latexExpression)) =>
           cleanResult = Restrict(latexExpression,
                                  (1..Len(latexExpression)) \ FirstBraceSpans(latexExpression))

\* a command name at i that is not directly followed by an opening brace
BareCommandAt(s, i) ==
    /\ NameEndAt(s, i) # 0
    /\ NameEndAt(s, i) > Len(s) \/ s[NameEndAt(s, i)] # "{"

\* a command with its argument has been deleted, and a bare command has
\* survived
C7_Witness ==
    /\ cleanOp = "commands"
    /\ FirstBraceSpans(latexExpression) # {}
    /\ Len(cleanResult) < Len(latexExpression)
    /\ \E i \in 1..Len(latexExpression) : BareCommandAt(latexExpression, i)
    /\ \E i \in 1..Len(cleanResult) : BareCommandAt(cleanResult, i)

HasRemovableCommand(s) == FirstBraceSpans(s) # {}

\* C3 as stated: cleaning a cleaned expression changes nothing.
C3_Idempotent ==
    cleanOp = "cleanTwice" => cleanResult = cleanPrev

\* C3 amended: cleaning a cleaned expression changes nothing, provided the
\* first cleaning left no removable command behind.
C3_IdempotentWithoutLeftoverCommand ==
    (cleanOp = "cleanTwice" /\ ~HasRemovableCommand(cleanPrev)) =>
        cleanResult = cleanPrev

HasBlankLine(s) ==
    \E i \in 1..(Len(s) - 1) : IsLineTerminator(s[i]) /\ IsLineTerminator(s[i + 1])

\* an expression has been cleaned twice whose comment, once removed, left a
\* blank line between text, and the first cleaning left text
C3_Witness ==
    /\ cleanOp = "cleanTwice"
    /\ ~HasRemovableCommand(cleanPrev)
    /\ ~HasBlankLine(latexExpression)
    /\ HasBlankLine(StripComments(latexExpression))
    /\ cleanPrev # <<>>
    /\ cleanPrev # latexExpression

(***************************************************************************)
(* Properties of the /convert handler.                                     *)
(***************************************************************************)
FileResponses(r) == {k \in 1..Len(responses[r]) : responses[r][k].kind = "file"}
ErrorResponses(r) == {k \in 1..Len(responses[r]) : responses[r][k].kind = "error"}

\* C2: whatever the interleaving of two requests, and also when both uploads
\* have the same original name, a file response carries the output computed
\* from the request's own document.
C2_OwnOutput ==
    \A r \in Requests :
        \A k \in FileResponses(r) :
            responses[r][k].body = OutputContent(LatexOf(upload[r].doc))

\* C9: when processing succeeds, none of the request's files is deleted
\* before its response has been sent.
C9_NoDeletionBeforeResponse ==
    \A r \in Requests : FileResponses(r) # {} => ~deletedEarly[r]

ListedFailures == {"no upload", "invalid upload", "convert", "read", "write"}

\* C10: a failure of the listed kinds (missing upload, invalid upload data,
\* converter, reading the LaTeX file, writing the output file) is answered by
\* exactly one response, an error of status 500 with the diagnostic; no request
\* gets both a file response and an error response, nor two responses.
C10_OneErrorResponse ==
    \A r \in Requests :
        /\ Len(responses[r]) <= 1
        /\ ~(FileResponses(r) # {} /\ ErrorResponses(r) # {})
        /\ failure[r] # "none" =>
               /\ failure[r] \in ListedFailures
               /\ responses[r] = <<[kind |-> "error", status |-> 500, body |-> failure[r]]>>
        /\ (failure[r] = "none" /\ pc[r] = "done") => Len(responses[r]) = 1
        /\ FileResponses(r) # {} => failure[r] = "none"

\* both requests are over: one failed for a missing upload and got its 500,
\* the other failed writing its output file and got its 500
C10_Witness ==
    /\ \A r \in Requests : pc[r] = "done"
    /\ \E r \in Requests : failure[r] = "no upload" /\ Len(responses[r]) = 1
    /\ \E r \in Requests : failure[r] = "write" /\ responses[r][1].status = 500

====
